---- MODULE Spec2Model ----
(***************************************************************************)
(* Model of the Strava activity dashboard: the OAuth token lifecycle       *)
(* (services/stravaOAuth.ts), the paginated activity fetch                 *)
(* (services/stravaApi.ts) and the React component that wires them         *)
(* together (App.tsx).                                                     *)
(*                                                                         *)
(* Optional values (T | null) are sequences of length <= 1: <<>> is null   *)
(* and <<v>> is the value v.  Every await is a separate step; the steps    *)
(* that run as promise continuations (microtasks) are taken before any     *)
(* user, timer or network event, as the event loop does.                   *)
(***************************************************************************)
EXTENDS Integers, Sequences, FiniteSets, TLC

VARIABLES
    localStorage,        \* window.localStorage: key -> <<>> | <<blob>>
    now,                 \* Math.floor(Date.now() / 1000)
    issued,              \* provider: number of token pairs issued so far
    remote,              \* provider: the athlete's activities, newest first
    net,                 \* HTTP requests in flight
    gvat,                \* live getValidAccessToken calls, by call id
    fetches,             \* live fetchActivities calls, by call id
    loads,               \* live loadActivities calls, by call id
    callback,            \* the handleOAuthCallback call of this page, if any
    page,                \* "loading" (document requested) | "mounted"
    url,                 \* query parameters of window.location
    failed,              \* codes and refresh tokens the provider has rejected
    activities,          \* React state of App
    loading,
    error,
    isAuthenticated,
    clientId,
    clientSecret,
    showCredentialsForm,
    selectedSports,      \* React state of App: the sports the chart shows
    userEmptied,         \* the user's latest choice left no sport selected
    zone,                \* the time zone of the browser
    ret                  \* what the latest direct call of a function returned

envVars   == <<now, issued, remote>>
opVars    == <<gvat, fetches, loads, callback>>
pageVars  == <<page, url>>
auxVars   == <<failed>>
uiVars    == <<activities, loading, error, isAuthenticated, clientId,
               clientSecret, showCredentialsForm>>
viewVars  == <<selectedSports, userEmptied>>
probeVars == <<zone, ret>>
vars      == <<localStorage, now, issued, remote, net, gvat, fetches, loads,
               callback, page, url, failed, activities, loading,
               error, isAuthenticated, clientId, clientSecret, showCredentialsForm,
               selectedSports, userEmptied, zone, ret>>

-----------------------------------------------------------------------------
(* Bounds of the model *)

MaxNow    == 2      \* the clock runs from 0 to MaxNow
MaxIssued == 2      \* token pairs the provider issues in one behaviour
MaxLive   == 2      \* call ids available to concurrently live calls

CallIds == 1..MaxLive

-----------------------------------------------------------------------------
(* Program constants *)

STORAGE_KEY       == "strava_tokens"
CLIENT_ID_KEY     == "strava_client_id"
CLIENT_SECRET_KEY == "strava_client_secret"
Keys == {STORAGE_KEY, CLIENT_ID_KEY, CLIENT_SECRET_KEY}

ExpiryMargin == 3600
perPage      == 200

Null == <<>>
Some(v) == <<v>>
IsNull(o) == o = <<>>
Val(o) == o[1]

Min(a, b) == IF a < b THEN a ELSE b

AddKey(f, k, v) == (k :> v) @@ f
DropKey(f, k) == [x \in DOMAIN f \ {k} |-> f[x]]

\* A promise some async function of the page awaits has settled and its
\* continuation has not run yet.  The event loop runs such continuations
\* before it dispatches any other event.
MicrotaskPending ==
    \/ \E id \in DOMAIN loads :
          \/ /\ loads[id].pc = "awaitGvat"
             /\ id \in DOMAIN gvat /\ gvat[id].pc \in {"returned", "thrown"}
          \/ /\ loads[id].pc = "awaitFetch"
             /\ id \in DOMAIN fetches /\ fetches[id].pc \in {"returned", "thrown"}
    \/ /\ ~IsNull(callback)
       /\ Val(callback).pc = "awaitLoad"
       /\ Val(callback).load \in DOMAIN loads
       /\ loads[Val(callback).load].pc = "done"

-----------------------------------------------------------------------------
(* The provider's token endpoint *)

\* expires_at values the provider may answer with: long expired, and values
\* that put the remaining lifetime on both sides of ExpiryMargin.
ExpiresAtValues == {0, ExpiryMargin, ExpiryMargin + 1}

AccessToken(g)  == <<"access", g>>
RefreshToken(g) == <<"refresh", g>>

\* StravaTokenResponse of the g-th pair the provider issues.
TokenResponse(g, exp, t) ==
    [token_type    |-> "Bearer",
     expires_at    |-> exp,
     expires_in    |-> exp - t,
     refresh_token |-> RefreshToken(g),
     access_token  |-> AccessToken(g),
     athlete       |-> "athlete"]

\* Variant: expires_in taken for expires_at.
TokensOf_expiresIn(tokenResponse) ==
    [access_token  |-> tokenResponse.access_token,
     refresh_token |-> tokenResponse.refresh_token,
     expires_at    |-> tokenResponse.expires_in]

\* StravaTokens taken from a token response (App.tsx 86-90, stravaOAuth.ts 152-156).
TokensOf(tokenResponse) ==
    [access_token  |-> tokenResponse.access_token,
     refresh_token |-> tokenResponse.refresh_token,
     expires_at    |-> tokenResponse.expires_at]

\* A pair left in localStorage by an earlier session.
OldTokens(exp) ==
    [access_token |-> AccessToken(0), refresh_token |-> RefreshToken(0),
     expires_at |-> exp]

-----------------------------------------------------------------------------
(* CredentialStore: stravaOAuth.ts 100-123 *)

\* JSON.stringify of a StravaTokens object: the members in insertion order.
JSONstringify(tokens) ==
    <<"{", <<"access_token", tokens.access_token>>,
           <<"refresh_token", tokens.refresh_token>>,
           <<"expires_at", tokens.expires_at>>, "}">>

\* Whether JSON.parse accepts the blob.
JSONvalid(blob) == Len(blob) = 5 /\ blob[1] = "{" /\ blob[5] = "}"

\* Variant: the two tokens read back into each other's member.
JSONparse_swapped(blob) ==
    [access_token  |-> blob[3][2],
     refresh_token |-> blob[2][2],
     expires_at    |-> blob[4][2]]

\* JSON.parse of an accepted blob.
JSONparse(blob) ==
    [access_token  |-> blob[2][2],
     refresh_token |-> blob[3][2],
     expires_at    |-> blob[4][2]]

storeTokens(ls, tokens) == [ls EXCEPT ![STORAGE_KEY] = Some(JSONstringify(tokens))]

\* Variant: the error JSON.parse throws is handed on as the value.
getStoredTokens_uncaught(ls) ==
    LET stored == ls[STORAGE_KEY] IN
    IF IsNull(stored) THEN Null
    ELSE IF JSONvalid(Val(stored)) THEN Some(JSONparse(Val(stored)))
    ELSE Some([name |-> "SyntaxError"])

getStoredTokens(ls) ==
    LET stored == ls[STORAGE_KEY] IN
    IF IsNull(stored) THEN Null
    ELSE IF JSONvalid(Val(stored)) THEN Some(JSONparse(Val(stored)))
    ELSE Null

clearTokens(ls) == [ls EXCEPT ![STORAGE_KEY] = Null]

\* The client-credential accessors App.tsx imports from stravaOAuth.
storeClientCredentials(ls, id, secret) ==
    [ls EXCEPT ![CLIENT_ID_KEY] = Some(id), ![CLIENT_SECRET_KEY] = Some(secret)]

getStoredClientCredentials(ls) ==
    IF IsNull(ls[CLIENT_ID_KEY]) \/ IsNull(ls[CLIENT_SECRET_KEY]) THEN Null
    ELSE Some([clientId |-> Val(ls[CLIENT_ID_KEY]),
               clientSecret |-> Val(ls[CLIENT_SECRET_KEY])])

clearClientCredentials(ls) ==
    [ls EXCEPT ![CLIENT_ID_KEY] = Null, ![CLIENT_SECRET_KEY] = Null]

-----------------------------------------------------------------------------
(* TokenLifecycleManager: stravaOAuth.ts 37-165 *)

\* Variant: the comparison made inclusive.
isTokenExpired_inclusive(tokens, t) ==
    LET expiresAt == tokens.expires_at IN
    expiresAt - t <= ExpiryMargin

isTokenExpired(tokens, t) ==
    LET expiresAt == tokens.expires_at IN
    expiresAt - t < ExpiryMargin

\* Variant: the client id and the client secret in each other's place.
ExchangeRequest_swapped(id, code, cid, secret) ==
    [kind |-> "exchange", id |-> id, grant_type |-> "authorization_code",
     code |-> code, client_id |-> secret, client_secret |-> cid]

\* The POST of exchangeCodeForTokens, issued by call id.
ExchangeRequest(id, code, cid, secret) ==
    [kind |-> "exchange", id |-> id, grant_type |-> "authorization_code",
     code |-> code, client_id |-> cid, client_secret |-> secret]

\* The POST of refreshAccessToken, issued by call id.
RefreshRequest(id, refreshToken, cid, secret) ==
    [kind |-> "refresh", id |-> id, grant_type |-> "refresh_token",
     refresh_token |-> refreshToken, client_id |-> cid, client_secret |-> secret]

NoStoredTokensMsg == <<"No stored tokens. Please authenticate with Strava.">>
RefreshFailedMsg  == <<"Failed to refresh token. Please re-authenticate.">>

\* getValidAccessToken up to its first await or its synchronous end:
\* the call record, and the request it sends (if any).  sent counts the
\* refresh requests the call has sent.
GvatEnter(ls, t, cid, secret, id, caller) ==
    LET tokens == getStoredTokens(ls)
        base == [pc |-> "entered", caller |-> caller, clientId |-> cid,
                 clientSecret |-> secret, tokens |-> tokens,
                 tokenResponse |-> Null, result |-> Null, message |-> <<>>,
                 sent |-> 0]
    IN  IF IsNull(tokens)
        THEN [rec |-> [base EXCEPT !.pc = "thrown", !.message = NoStoredTokensMsg],
              send |-> {}]
        ELSE IF isTokenExpired(Val(tokens), t)
        THEN [rec |-> [base EXCEPT !.pc = "refreshing", !.sent = 1],
              send |-> {RefreshRequest(id, Val(tokens).refresh_token, cid, secret)}]
        ELSE [rec |-> [base EXCEPT !.pc = "returned",
                                   !.result = Some(Val(tokens).access_token)],
              send |-> {}]

\* Variant: the call returns the access token it read from the store.
GvatRefreshed_stale(g, tokenResponse) ==
    [g EXCEPT !.pc = "returned",
              !.tokenResponse = Some(tokenResponse),
              !.result = Some(Val(g.tokens).access_token),
              !.tokens = Some(TokensOf(tokenResponse))]

\* The call record after the refresh response was received with success.
GvatRefreshed(g, tokenResponse) ==
    [g EXCEPT !.pc = "returned",
              !.tokenResponse = Some(tokenResponse),
              !.tokens = Some(TokensOf(tokenResponse)),
              !.result = Some(TokensOf(tokenResponse).access_token)]

\* Variant: the success branch without storeTokens(tokens).
GvatRefreshedStore_skipped(ls, g) == ls

\* What the success branch leaves in localStorage (line 157).
GvatRefreshedStore(ls, g) == storeTokens(ls, Val(g.tokens))

\* Variant: the catch branch without clearTokens().
GvatRefreshFailedStore_kept(ls) == ls

\* What the catch branch leaves in localStorage (line 159).
GvatRefreshFailedStore(ls) == clearTokens(ls)

\* Variant: the rejected refresh request is sent again.
GvatRefreshFailed_retry(g, req) ==
    [rec |-> [g EXCEPT !.sent = @ + 1], send |-> {req}]

\* The call record after the refresh request req was rejected (lines 158-161),
\* and what the catch branch sends.
GvatRefreshFailed(g, req) ==
    [rec |-> [g EXCEPT !.pc = "thrown", !.message = RefreshFailedMsg], send |-> {}]

\* The continuation of getValidAccessToken after `await refreshAccessToken`:
\* the provider answers the refresh request of call id.
RefreshResponse(id) ==
    /\ ~MicrotaskPending
    /\ id \in DOMAIN gvat
    /\ gvat[id].pc = "refreshing"
    /\ \E req \in net :
        /\ req.kind = "refresh" /\ req.id = id
        /\ \/ /\ issued < MaxIssued
              /\ \E exp \in ExpiresAtValues :
                    LET g == GvatRefreshed(gvat[id], TokenResponse(issued + 1, exp, now)) IN
                    /\ gvat' = [gvat EXCEPT ![id] = g]
                    /\ localStorage' = GvatRefreshedStore(localStorage, g)
              /\ net' = net \ {req}
              /\ issued' = issued + 1
              /\ UNCHANGED failed
           \/ /\ LET r == GvatRefreshFailed(gvat[id], req) IN
                    /\ gvat' = [gvat EXCEPT ![id] = r.rec]
                    /\ net' = (net \ {req}) \cup r.send
              /\ localStorage' = GvatRefreshFailedStore(localStorage)
              /\ failed' = failed \cup {req.refresh_token}
              /\ UNCHANGED issued
    /\ UNCHANGED <<now, remote, fetches, loads, callback, pageVars, uiVars>>
    /\ UNCHANGED <<viewVars, probeVars>>

-----------------------------------------------------------------------------
(* ActivityFetcher: stravaApi.ts 9-71 *)

\* The remote collection of n activities, newest first; an activity is its id.
Collection(n) == [i \in 1..n |-> n + 1 - i]

\* What the activities endpoint serves for ?page=p&per_page=pp.
PageOf(coll, p, pp) == SubSeq(coll, (p - 1) * pp + 1, Min(p * pp, Len(coll)))

ErrorStatuses == {401, 403, 429}

\* `${response.status} ${response.statusText}`
StatusLine(status) ==
    CASE status = 401 -> "401 Unauthorized"
      [] status = 403 -> "403 Forbidden"
      [] status = 429 -> "429 Too Many Requests"
      [] status = 400 -> "400 Bad Request"
      [] OTHER        -> "500 Internal Server Error"

\* Error bodies: the text read from the response, whether it parses as JSON,
\* and the value of its message member ("" when it has none).
ErrorBodies ==
    { [text |-> "Unknown error", isJson |-> FALSE, message |-> ""],
      [text |-> "Service Unavailable", isJson |-> FALSE, message |-> ""],
      [text |-> "{}", isJson |-> TRUE, message |-> ""],
      [text |-> "{message: Session ended, please re-authenticate}", isJson |-> TRUE,
       message |-> "Session ended, please re-authenticate"] }

UnauthorizedMsg == "Unauthorized: Invalid or expired access token. Please re-authenticate."
ForbiddenMsg    == "Forbidden: Access denied. Check your token permissions."
ApiErrorPrefix  == "Strava API error: "

\* The message of the Error thrown for a non-ok page response (lines 26-47).
FetchErrorMessage(status, body) ==
    LET errorMessage ==
            IF status = 401 THEN <<UnauthorizedMsg>>
            ELSE IF status = 403 THEN <<ForbiddenMsg>>
            ELSE <<ApiErrorPrefix, StatusLine(status)>>
    IN  IF body.isJson
        THEN IF body.message # "" THEN errorMessage \o <<" - ", body.message>>
             ELSE errorMessage
        ELSE IF body.text # "" /\ body.text # "Unknown error"
             THEN errorMessage \o <<" - ", body.text>>
             ELSE errorMessage

\* The GET of one page, issued by call id.
PageRequest(id, accessToken, p) ==
    [kind |-> "page", id |-> id, authorization |-> <<"Bearer", accessToken>>,
     page |-> p, per_page |-> perPage]

\* Variant: pages counted from 0.
FetchEnter_fromZero(accessToken, id, caller) ==
    [rec |-> [pc |-> "requesting", caller |-> caller, accessToken |-> accessToken,
              activities |-> <<>>, page |-> 0, requested |-> <<0>>,
              status |-> 0, result |-> Null, message |-> <<>>],
     send |-> {[kind |-> "page", id |-> id, authorization |-> <<"Bearer", accessToken>>,
                page |-> 0, per_page |-> perPage]}]

\* fetchActivities up to its first await: the call record and the request
\* for page 1.  requested lists the page numbers asked for so far and status
\* is response.status of the latest response (0 before the first).
FetchEnter(accessToken, id, caller) ==
    [rec |-> [pc |-> "requesting", caller |-> caller, accessToken |-> accessToken,
              activities |-> <<>>, page |-> 1, requested |-> <<1>>,
              status |-> 0, result |-> Null, message |-> <<>>],
     send |-> {PageRequest(id, accessToken, 1)}]

\* Variant: the loop gives up after the second page.
FetchPage_capped(f, id, pageActivities) ==
    LET acts == f.activities \o pageActivities IN
    IF Len(pageActivities) < perPage \/ f.page >= 2
    THEN [rec |-> [f EXCEPT !.pc = "returned", !.status = 200,
                            !.activities = acts, !.result = Some(acts)],
          send |-> {}]
    ELSE [rec |-> [f EXCEPT !.status = 200, !.activities = acts,
                            !.page = f.page + 1,
                            !.requested = Append(f.requested, f.page + 1)],
          send |-> {[kind |-> "page", id |-> id,
                     authorization |-> <<"Bearer", f.accessToken>>,
                     page |-> f.page + 1, per_page |-> perPage]}]

\* Variant: the loop ends on an empty page only.
FetchPage_emptyOnly(f, id, pageActivities) ==
    IF Len(pageActivities) = 0
    THEN [rec |-> [f EXCEPT !.pc = "returned", !.status = 200,
                            !.result = Some(f.activities)],
          send |-> {}]
    ELSE [rec |-> [f EXCEPT !.status = 200,
                            !.activities = f.activities \o pageActivities,
                            !.page = f.page + 1,
                            !.requested = Append(f.requested, f.page + 1)],
          send |-> {[kind |-> "page", id |-> id,
                     authorization |-> <<"Bearer", f.accessToken>>,
                     page |-> f.page + 1, per_page |-> perPage]}]

\* The loop body after an ok response carrying pageActivities (lines 50-63):
\* the call record and the next request (if any).
FetchPage(f, id, pageActivities) ==
    IF Len(pageActivities) = 0
    THEN [rec |-> [f EXCEPT !.pc = "returned", !.status = 200,
                            !.result = Some(f.activities)],
          send |-> {}]
    ELSE LET acts == f.activities \o pageActivities IN
         IF Len(pageActivities) < perPage
         THEN [rec |-> [f EXCEPT !.pc = "returned", !.status = 200,
                                 !.activities = acts, !.result = Some(acts)],
               send |-> {}]
         ELSE [rec |-> [f EXCEPT !.status = 200, !.activities = acts,
                                 !.page = f.page + 1,
                                 !.requested = Append(f.requested, f.page + 1)],
               send |-> {PageRequest(id, f.accessToken, f.page + 1)}]

\* Variant: the catch block returns what was gathered instead of rethrowing.
FetchFailed_partial(f, status, body) ==
    [f EXCEPT !.pc = "returned", !.status = status, !.result = Some(f.activities)]

\* The throw for a non-ok response (lines 25-48, rethrown at 67-70).
FetchFailed(f, status, body) ==
    [f EXCEPT !.pc = "thrown", !.status = status,
              !.message = FetchErrorMessage(status, body)]

\* The continuation of fetchActivities after `await fetch(...)`: the provider
\* answers the page request of call id.
PageResponse(id) ==
    /\ ~MicrotaskPending
    /\ id \in DOMAIN fetches
    /\ fetches[id].pc = "requesting"
    /\ \E req \in net :
        /\ req.kind = "page" /\ req.id = id
        /\ \/ LET r == FetchPage(fetches[id], id, PageOf(remote, req.page, req.per_page)) IN
              /\ fetches' = [fetches EXCEPT ![id] = r.rec]
              /\ net' = (net \ {req}) \cup r.send
           \/ \E status \in ErrorStatuses, body \in ErrorBodies :
              /\ fetches' = [fetches EXCEPT ![id] = FetchFailed(@, status, body)]
              /\ net' = net \ {req}
    /\ UNCHANGED <<localStorage, envVars, gvat, loads, callback, pageVars, failed, uiVars>>
    /\ UNCHANGED <<viewVars, probeVars>>

-----------------------------------------------------------------------------
(* The clock *)

Tick ==
    /\ ~MicrotaskPending
    /\ now < MaxNow
    /\ now' = now + 1
    /\ UNCHANGED <<localStorage, issued, remote, net, opVars, pageVars, failed, uiVars>>
    /\ UNCHANGED <<viewVars, probeVars>>

-----------------------------------------------------------------------------
(* The token services called directly, one call at a time, by a caller     *)
(* that holds no other state.                                              *)

NoCalls == <<>>

ClientIds     == {"12345"}
ClientSecrets == {"s3cr3t"}

StoredTokenStates ==
    {Null} \cup {Some(JSONstringify(OldTokens(exp))) : exp \in ExpiresAtValues}

InitOAuth ==
    /\ localStorage \in {[k \in Keys |-> IF k = STORAGE_KEY THEN st ELSE Null] :
                            st \in StoredTokenStates}
    /\ now = 0
    /\ issued = 0
    /\ remote = <<>>
    /\ net = {}
    /\ gvat = NoCalls /\ fetches = NoCalls /\ loads = NoCalls /\ callback = Null
    /\ page = "none" /\ url = [code |-> Null, error |-> Null]
    /\ failed = {}
    /\ activities = <<>> /\ loading = FALSE /\ error = Null
    /\ isAuthenticated = FALSE /\ clientId = "" /\ clientSecret = ""
    /\ showCredentialsForm = FALSE
    /\ selectedSports = <<>> /\ userEmptied = FALSE
    /\ zone = "utc" /\ ret = Null

\* await getValidAccessToken(cid, secret)
ApiGetValidAccessToken ==
    /\ gvat = NoCalls
    /\ \E cid \in ClientIds, secret \in ClientSecrets :
        LET r == GvatEnter(localStorage, now, cid, secret, 1, "api") IN
        /\ gvat' = AddKey(gvat, 1, r.rec)
        /\ net' = net \cup r.send
    /\ UNCHANGED <<localStorage, envVars, fetches, loads, callback, pageVars, failed, uiVars>>
    /\ UNCHANGED <<viewVars, probeVars>>

\* The caller observes the settled promise.
ApiGvatSettled ==
    /\ 1 \in DOMAIN gvat
    /\ gvat[1].pc \in {"returned", "thrown"}
    /\ gvat' = DropKey(gvat, 1)
    /\ UNCHANGED <<localStorage, envVars, net, fetches, loads, callback, pageVars,
                   failed, uiVars>>
    /\ UNCHANGED <<viewVars, probeVars>>

\* storeTokens(pair) with a pair of a new authorization.
ApiStoreTokens ==
    /\ gvat = NoCalls
    /\ issued < MaxIssued
    /\ \E exp \in ExpiresAtValues :
        localStorage' = storeTokens(localStorage, TokensOf(TokenResponse(issued + 1, exp, now)))
    /\ issued' = issued + 1
    /\ UNCHANGED <<now, remote, net, opVars, pageVars, failed, uiVars>>
    /\ UNCHANGED <<viewVars, probeVars>>

\* clearTokens()
ApiClearTokens ==
    /\ gvat = NoCalls
    /\ ~IsNull(localStorage[STORAGE_KEY])
    /\ localStorage' = clearTokens(localStorage)
    /\ UNCHANGED <<envVars, net, opVars, pageVars, failed, uiVars>>
    /\ UNCHANGED <<viewVars, probeVars>>

NextOAuth ==
    \/ ApiGetValidAccessToken
    \/ RefreshResponse(1)
    \/ ApiGvatSettled
    \/ ApiStoreTokens
    \/ ApiClearTokens
    \/ Tick

SpecOAuth == InitOAuth /\ [][NextOAuth]_vars

-----------------------------------------------------------------------------
(* fetchActivities called directly against a remote collection that does   *)
(* not change.                                                             *)

FetchSizes == {0, 1, 50, 199, 200, 201, 399, 400, 401, 450}

InitFetch ==
    /\ localStorage = [k \in Keys |-> Null]
    /\ now = 0
    /\ issued = 0
    /\ remote \in {Collection(n) : n \in FetchSizes}
    /\ net = {}
    /\ gvat = NoCalls /\ fetches = NoCalls /\ loads = NoCalls /\ callback = Null
    /\ page = "none" /\ url = [code |-> Null, error |-> Null]
    /\ failed = {}
    /\ activities = <<>> /\ loading = FALSE /\ error = Null
    /\ isAuthenticated = FALSE /\ clientId = "" /\ clientSecret = ""
    /\ showCredentialsForm = FALSE
    /\ selectedSports = <<>> /\ userEmptied = FALSE
    /\ zone = "utc" /\ ret = Null

\* await fetchActivities(accessToken)
ApiFetchActivities ==
    /\ fetches = NoCalls
    /\ \E g \in 0..1 :
        LET r == FetchEnter(AccessToken(g), 1, "api") IN
        /\ fetches' = AddKey(fetches, 1, r.rec)
        /\ net' = net \cup r.send
    /\ UNCHANGED <<localStorage, envVars, gvat, loads, callback, pageVars, failed, uiVars>>
    /\ UNCHANGED <<viewVars, probeVars>>

\* The caller observes the settled promise.
ApiFetchSettled ==
    /\ 1 \in DOMAIN fetches
    /\ fetches[1].pc \in {"returned", "thrown"}
    /\ fetches' = DropKey(fetches, 1)
    /\ UNCHANGED <<localStorage, envVars, net, gvat, loads, callback, pageVars,
                   failed, uiVars>>
    /\ UNCHANGED <<viewVars, probeVars>>

NextFetch ==
    \/ ApiFetchActivities
    \/ PageResponse(1)
    \/ ApiFetchSettled

SpecFetch == InitFetch /\ [][NextFetch]_vars

\* The remote source answers every request it receives.
SpecFetchFair == SpecFetch /\ WF_vars(PageResponse(1))

-----------------------------------------------------------------------------
(* App.tsx: the React component *)

Codes == {<<"code", 1>>}

NoParams == [code |-> Null, error |-> Null]

\* Query strings the page may be opened with: none, the provider's redirect
\* with a code, with error=access_denied, or with both parameters.
Urls ==
    {NoParams}
      \cup {[code |-> Some(c), error |-> Null] : c \in Codes}
      \cup {[code |-> Null, error |-> Some("access_denied")]}
      \cup {[code |-> Some(c), error |-> Some("access_denied")] : c \in Codes}

\* What the user may type into a credentials field.
ClientIdInputs     == {"", " "} \cup ClientIds
ClientSecretInputs == {""} \cup ClientSecrets

\* String.prototype.trim on those inputs.
Trim(str) == IF str = " " THEN "" ELSE str

AppSizes == {0, perPage + 1}

AccessDeniedMsg == <<"Access denied. Please try again and grant the required permissions.">>
CredentialsNotFoundFirstMsg == <<"Client credentials not found. Please enter them first.">>
CredentialsNotFoundMsg == <<"Client credentials not found">>
EnterClientIdMsg == <<"Please enter your Client ID">>
EnterClientSecretMsg == <<"Please enter your Client Secret">>

TokenErrorStatuses == {400, 500}
TokenErrorBodies ==
    {b \in ErrorBodies :
        b.text \in {"Service Unavailable",
                    "{message: Session ended, please re-authenticate}"}}

\* `Token exchange failed: ${status} ${statusText} - ${errorText}`
ExchangeFailedMsg(status, body) ==
    <<"Token exchange failed: ", StatusLine(status), " - ", body.text>>

\* The strings of the model that contain the substring 're-authenticate'.
ReauthStrings ==
    {UnauthorizedMsg, RefreshFailedMsg[1], "Session ended, please re-authenticate",
     "{message: Session ended, please re-authenticate}"}

\* Variant: the substring misspelt, so that no message contains it.
IncludesReauthenticate_misspelt(message) ==
    \E i \in 1..Len(message) : message[i] = "reauthenticate"

\* err.message.includes('re-authenticate')
IncludesReauthenticate(message) ==
    \E i \in 1..Len(message) : message[i] \in ReauthStrings

\* The id given to a new call: the least one no live call holds.
FreeIds ==
    LET free == CallIds \ (DOMAIN loads \cup DOMAIN gvat \cup DOMAIN fetches) IN
    {id \in free : \A other \in free : id <= other}

InitApp ==
    /\ localStorage \in
         {[k \in Keys |-> CASE k = STORAGE_KEY -> st
                            [] k = CLIENT_ID_KEY -> cr[1]
                            [] k = CLIENT_SECRET_KEY -> cr[2]] :
            st \in StoredTokenStates,
            cr \in {<<Null, Null>>} \cup
                   {<<Some(i), Some(x)>> : i \in ClientIds, x \in ClientSecrets}}
    /\ now = 0
    /\ issued = 0
    /\ remote \in {Collection(n) : n \in AppSizes}
    /\ net = {}
    /\ gvat = NoCalls /\ fetches = NoCalls /\ loads = NoCalls /\ callback = Null
    /\ page = "loading" /\ url \in Urls
    /\ failed = {}
    /\ activities = <<>> /\ loading = FALSE /\ error = Null
    /\ isAuthenticated = FALSE /\ clientId = "" /\ clientSecret = ""
    /\ showCredentialsForm = FALSE
    /\ selectedSports = <<>> /\ userEmptied = FALSE
    /\ zone = "utc" /\ ret = Null

\* Variant: loadActivities without setLoading(true).
LoadEnter_notLoading(ls, t, id, caller, curError, curLoading) ==
    LET credentials == getStoredClientCredentials(ls) IN
    IF IsNull(credentials)
    THEN [load |-> [pc |-> "done", caller |-> caller], gv |-> Null, send |-> {},
          error |-> Some(CredentialsNotFoundMsg), loading |-> curLoading]
    ELSE LET r == GvatEnter(ls, t, Val(credentials).clientId,
                            Val(credentials).clientSecret, id, "load")
         IN  [load |-> [pc |-> "awaitGvat", caller |-> caller], gv |-> Some(r.rec),
              send |-> r.send, error |-> Null, loading |-> FALSE]

\* loadActivities up to its first await (lines 128-139), reading the store ls:
\* the load and getValidAccessToken records, the request sent, and the
\* React state it sets.
LoadEnter(ls, t, id, caller, curError, curLoading) ==
    LET credentials == getStoredClientCredentials(ls) IN
    IF IsNull(credentials)
    THEN [load |-> [pc |-> "done", caller |-> caller], gv |-> Null, send |-> {},
          error |-> Some(CredentialsNotFoundMsg), loading |-> curLoading]
    ELSE LET r == GvatEnter(ls, t, Val(credentials).clientId,
                            Val(credentials).clientSecret, id, "load")
         IN  [load |-> [pc |-> "awaitGvat", caller |-> caller], gv |-> Some(r.rec),
              send |-> r.send, error |-> Null, loading |-> TRUE]

\* A load that has run to its end is kept only while handleOAuthCallback
\* awaits it.
Retire(ld, id) ==
    IF ld[id].caller = "callback" THEN [ld EXCEPT ![id].pc = "done"] ELSE DropKey(ld, id)

\* The two effects that run once when the component mounts (lines 31-66),
\* with the synchronous part of handleOAuthCallback (lines 68-84).
Mount ==
    /\ page = "loading"
    /\ page' = "mounted"
    /\ LET credentials == getStoredClientCredentials(localStorage)
           tokens == getStoredTokens(localStorage)
       IN
       /\ IF url.error = Some("access_denied")
          THEN /\ error' = Some(AccessDeniedMsg)
               /\ url' = NoParams
               /\ UNCHANGED <<loading, callback, net>>
          ELSE IF ~IsNull(url.code)
          THEN /\ url' = NoParams
               /\ IF IsNull(credentials)
                  THEN /\ error' = Some(CredentialsNotFoundFirstMsg)
                       /\ loading' = FALSE
                       /\ UNCHANGED <<callback, net>>
                  ELSE /\ error' = Null
                       /\ loading' = TRUE
                       /\ callback' = Some([pc |-> "exchanging", code |-> Val(url.code),
                                            tokenResponse |-> Null, load |-> 0])
                       /\ net' = net \cup
                            {ExchangeRequest(0, Val(url.code), Val(credentials).clientId,
                                             Val(credentials).clientSecret)}
          ELSE UNCHANGED <<error, loading, callback, net, url>>
       /\ IF IsNull(credentials)
          THEN /\ showCredentialsForm' = TRUE
               /\ UNCHANGED <<clientId, clientSecret>>
          ELSE /\ clientId' = Val(credentials).clientId
               /\ clientSecret' = Val(credentials).clientSecret
               /\ showCredentialsForm' = FALSE
       /\ isAuthenticated' = IF IsNull(tokens) THEN isAuthenticated ELSE TRUE
    /\ UNCHANGED <<localStorage, envVars, gvat, fetches, loads, auxVars, activities>>
    /\ UNCHANGED <<viewVars, probeVars>>

\* handleOAuthCallback after `await exchangeCodeForTokens` (lines 80-99): the
\* provider answers the exchange request.
ExchangeResponse ==
    /\ ~MicrotaskPending
    /\ ~IsNull(callback) /\ Val(callback).pc = "exchanging"
    /\ \E req \in net :
        /\ req.kind = "exchange"
        /\ \/ /\ issued < MaxIssued
              /\ \E exp \in ExpiresAtValues, id \in FreeIds :
                    LET tokenResponse == TokenResponse(issued + 1, exp, now)
                        ls == storeTokens(localStorage, TokensOf(tokenResponse))
                        r == LoadEnter(ls, now, id, "callback", error, loading)
                    IN  /\ localStorage' = ls
                        /\ isAuthenticated' = TRUE
                        /\ loads' = AddKey(loads, id, r.load)
                        /\ gvat' = IF IsNull(r.gv) THEN gvat ELSE AddKey(gvat, id, Val(r.gv))
                        /\ net' = (net \ {req}) \cup r.send
                        /\ error' = r.error
                        /\ loading' = r.loading
                        /\ callback' = Some([Val(callback) EXCEPT
                                               !.pc = "awaitLoad",
                                               !.tokenResponse = Some(tokenResponse),
                                               !.load = id])
              /\ issued' = issued + 1
              /\ UNCHANGED failed
           \/ \E status \in TokenErrorStatuses, body \in TokenErrorBodies :
              /\ error' = Some(ExchangeFailedMsg(status, body))
              /\ loading' = FALSE
              /\ callback' = Null
              /\ net' = net \ {req}
              /\ failed' = failed \cup {req.code}
              /\ UNCHANGED <<localStorage, issued, isAuthenticated, loads, gvat>>
    /\ UNCHANGED <<now, remote, fetches, pageVars, activities, clientId,
                   clientSecret, showCredentialsForm>>
    /\ UNCHANGED <<viewVars, probeVars>>

\* handleOAuthCallback after `await loadActivities()` (lines 94-99).
CallbackLoadSettled ==
    /\ ~IsNull(callback) /\ Val(callback).pc = "awaitLoad"
    /\ Val(callback).load \in DOMAIN loads
    /\ loads[Val(callback).load].pc = "done"
    /\ loading' = FALSE
    /\ callback' = Null
    /\ loads' = DropKey(loads, Val(callback).load)
    /\ UNCHANGED <<localStorage, envVars, net, gvat, fetches, pageVars, auxVars,
                   activities, error, isAuthenticated, clientId, clientSecret,
                   showCredentialsForm>>
    /\ UNCHANGED <<viewVars, probeVars>>

\* The Load Activities button (lines 274-280) and loadActivities up to its
\* first await.
ClickLoad ==
    /\ ~MicrotaskPending
    /\ page = "mounted" /\ isAuthenticated /\ ~loading
    /\ \E id \in FreeIds :
        LET r == LoadEnter(localStorage, now, id, "click", error, loading) IN
        /\ loads' = IF r.load.pc = "done" THEN loads ELSE AddKey(loads, id, r.load)
        /\ gvat' = IF IsNull(r.gv) THEN gvat ELSE AddKey(gvat, id, Val(r.gv))
        /\ net' = net \cup r.send
        /\ error' = r.error
        /\ loading' = r.loading
    /\ UNCHANGED <<localStorage, envVars, fetches, callback, pageVars, auxVars,
                   activities, isAuthenticated, clientId, clientSecret,
                   showCredentialsForm>>
    /\ UNCHANGED <<viewVars, probeVars>>

\* Variant: the catch block without setError.
LoadCatch_silent(id, message) ==
    /\ error' = Null
    /\ IF IncludesReauthenticate(message)
       THEN /\ isAuthenticated' = FALSE
            /\ localStorage' = clearTokens(localStorage)
       ELSE UNCHANGED <<isAuthenticated, localStorage>>
    /\ loading' = FALSE
    /\ loads' = Retire(loads, id)

\* The catch and finally blocks of loadActivities (lines 142-150) for an
\* error with the given message.
LoadCatch(id, message) ==
    /\ error' = Some(message)
    /\ IF IncludesReauthenticate(message)
       THEN /\ isAuthenticated' = FALSE
            /\ localStorage' = clearTokens(localStorage)
       ELSE UNCHANGED <<isAuthenticated, localStorage>>
    /\ loading' = FALSE
    /\ loads' = Retire(loads, id)

\* loadActivities after `await getValidAccessToken` (lines 139-150).
LoadGvatSettled(id) ==
    /\ id \in DOMAIN loads /\ loads[id].pc = "awaitGvat"
    /\ id \in DOMAIN gvat /\ gvat[id].pc \in {"returned", "thrown"}
    /\ gvat' = DropKey(gvat, id)
    /\ IF gvat[id].pc = "returned"
       THEN LET r == FetchEnter(Val(gvat[id].result), id, "load") IN
            /\ fetches' = AddKey(fetches, id, r.rec)
            /\ net' = net \cup r.send
            /\ loads' = [loads EXCEPT ![id].pc = "awaitFetch"]
            /\ UNCHANGED <<localStorage, error, isAuthenticated, loading>>
       ELSE /\ LoadCatch(id, gvat[id].message)
            /\ UNCHANGED <<fetches, net>>
    /\ UNCHANGED <<envVars, callback, pageVars, auxVars, activities, clientId,
                   clientSecret, showCredentialsForm>>
    /\ UNCHANGED <<viewVars, probeVars>>

\* Variant: the fetched records are appended to those held.
setActivities_merged(held, data) == held \o data

\* setActivities(data) (line 141): the activities held after the update.
setActivities(held, data) == data

\* loadActivities after `await fetchActivities` (lines 140-150).
LoadFetchSettled(id) ==
    /\ id \in DOMAIN loads /\ loads[id].pc = "awaitFetch"
    /\ id \in DOMAIN fetches /\ fetches[id].pc \in {"returned", "thrown"}
    /\ fetches' = DropKey(fetches, id)
    /\ IF fetches[id].pc = "returned"
       THEN /\ activities' = setActivities(activities, Val(fetches[id].result))
            /\ loading' = FALSE
            /\ loads' = Retire(loads, id)
            /\ UNCHANGED <<localStorage, error, isAuthenticated>>
       ELSE /\ LoadCatch(id, fetches[id].message)
            /\ UNCHANGED activities
    /\ UNCHANGED <<envVars, net, gvat, callback, pageVars, auxVars, clientId,
                   clientSecret, showCredentialsForm>>
    /\ UNCHANGED <<viewVars, probeVars>>

\* The Disconnect button (lines 281-286) and handleDisconnect (lines 121-126).
HandleDisconnect ==
    /\ ~MicrotaskPending
    /\ page = "mounted" /\ isAuthenticated
    /\ localStorage' = clearTokens(localStorage)
    /\ isAuthenticated' = FALSE
    /\ activities' = <<>>
    /\ selectedSports' = <<>> /\ userEmptied' = FALSE
    /\ UNCHANGED <<envVars, net, opVars, pageVars, auxVars, loading, error, clientId,
                   clientSecret, showCredentialsForm>>
    /\ UNCHANGED probeVars

\* The two inputs of the credentials form (lines 209-230).
EditCredentials ==
    /\ ~MicrotaskPending
    /\ page = "mounted" /\ ~isAuthenticated /\ showCredentialsForm
    /\ \E i \in ClientIdInputs, x \in ClientSecretInputs :
        /\ <<i, x>> # <<clientId, clientSecret>>
        /\ clientId' = i
        /\ clientSecret' = x
    /\ UNCHANGED <<localStorage, envVars, net, opVars, pageVars, auxVars, activities,
                   loading, error, isAuthenticated, showCredentialsForm>>
    /\ UNCHANGED <<viewVars, probeVars>>

\* Whether one of the two Connect buttons is shown and enabled (lines 245-263).
ConnectEnabled ==
    /\ ~isAuthenticated
    /\ ~loading
    /\ showCredentialsForm => (Trim(clientId) # "" /\ Trim(clientSecret) # "")

\* A new document replaces the page: the React state and every pending
\* continuation and request of the old document are gone.
OpenPage(params) ==
    /\ page' = "loading"
    /\ url' = params
    /\ net' = {}
    /\ gvat' = NoCalls /\ fetches' = NoCalls /\ loads' = NoCalls /\ callback' = Null
    /\ activities' = <<>> /\ loading' = FALSE /\ error' = Null
    /\ isAuthenticated' = FALSE /\ clientId' = "" /\ clientSecret' = ""
    /\ showCredentialsForm' = FALSE
    /\ selectedSports' = <<>> /\ userEmptied' = FALSE

\* handleConnect (lines 102-119); the provider redirects back with a code or
\* with error=access_denied.
HandleConnect ==
    /\ ~MicrotaskPending
    /\ page = "mounted" /\ ConnectEnabled
    /\ IF Trim(clientId) = ""
       THEN /\ error' = Some(EnterClientIdMsg)
            /\ UNCHANGED <<localStorage, net, opVars, pageVars, activities, loading,
                           isAuthenticated, clientId, clientSecret, showCredentialsForm,
                           viewVars>>
       ELSE IF Trim(clientSecret) = ""
       THEN /\ error' = Some(EnterClientSecretMsg)
            /\ UNCHANGED <<localStorage, net, opVars, pageVars, activities, loading,
                           isAuthenticated, clientId, clientSecret, showCredentialsForm,
                           viewVars>>
       ELSE /\ localStorage' = storeClientCredentials(localStorage, clientId, clientSecret)
            /\ \E params \in Urls \ {NoParams} : OpenPage(params)
    /\ UNCHANGED <<envVars, auxVars>>
    /\ UNCHANGED probeVars

\* The user reloads the page or opens it from an address that may still
\* carry the parameters of an earlier redirect.
Navigate ==
    /\ ~MicrotaskPending
    /\ page = "mounted"
    /\ \E params \in Urls : OpenPage(params)
    /\ UNCHANGED <<localStorage, envVars, auxVars>>
    /\ UNCHANGED probeVars

\* The athlete records or deletes activities.
RemoteChange ==
    /\ ~MicrotaskPending
    /\ \E n \in AppSizes \ {Len(remote)} : remote' = Collection(n)
    /\ UNCHANGED <<localStorage, now, issued, net, opVars, pageVars, auxVars, uiVars>>
    /\ UNCHANGED <<viewVars, probeVars>>

Next ==
    \/ Mount
    \/ ExchangeResponse
    \/ CallbackLoadSettled
    \/ ClickLoad
    \/ \E id \in CallIds : RefreshResponse(id)
    \/ \E id \in CallIds : LoadGvatSettled(id)
    \/ \E id \in CallIds : PageResponse(id)
    \/ \E id \in CallIds : LoadFetchSettled(id)
    \/ HandleDisconnect
    \/ EditCredentials
    \/ HandleConnect
    \/ Navigate
    \/ RemoteChange
    \/ Tick

Init == InitApp

Spec == Init /\ [][Next]_vars

-----------------------------------------------------------------------------
(* The token store and the expiry predicate called directly: storeTokens,   *)
(* getStoredTokens, clearTokens and isTokenExpired (stravaOAuth.ts 100-133) *)
(* in any order, with other code of the origin writing to the same key.    *)

\* Token pairs handed to the functions: access and refresh tokens of any two
\* generations, expired, and with a lifetime on both sides of the margin.
ProbeExpiresAt ==
    {-1, 0, ExpiryMargin - 1, ExpiryMargin, ExpiryMargin + 1, ExpiryMargin + 2}

ProbeTokens ==
    {[access_token |-> AccessToken(g), refresh_token |-> RefreshToken(h),
      expires_at |-> exp] : g \in 0..1, h \in 0..1, exp \in ProbeExpiresAt}

\* Values of the key that JSON.parse rejects: the empty string and a blob
\* cut short.
UndecodableBlobs == {<<>>, <<"{", <<"access_token", AccessToken(0)>>>>}

\* The record of a call: the function, its argument (if any), the clock at
\* the call, and the value returned (<<>> for void).
Returned(fn, arg, t, value) == [fn |-> fn, arg |-> arg, now |-> t, value |-> value]

InitStore ==
    /\ localStorage \in
         {[k \in Keys |-> IF k = STORAGE_KEY THEN st ELSE Null] :
            st \in {Null} \cup {Some(b) : b \in UndecodableBlobs}}
    /\ now = 0
    /\ issued = 0
    /\ remote = <<>>
    /\ net = {}
    /\ gvat = NoCalls /\ fetches = NoCalls /\ loads = NoCalls /\ callback = Null
    /\ page = "none" /\ url = [code |-> Null, error |-> Null]
    /\ failed = {}
    /\ activities = <<>> /\ loading = FALSE /\ error = Null
    /\ isAuthenticated = FALSE /\ clientId = "" /\ clientSecret = ""
    /\ showCredentialsForm = FALSE
    /\ selectedSports = <<>> /\ userEmptied = FALSE
    /\ zone = "utc" /\ ret = Null

\* isTokenExpired(tokens)
CallIsTokenExpired ==
    /\ \E tokens \in ProbeTokens :
        ret' = Some(Returned("isTokenExpired", Some(tokens), now,
                             Some(isTokenExpired(tokens, now))))
    /\ UNCHANGED <<localStorage, envVars, net, opVars, pageVars, auxVars, uiVars, viewVars, zone>>

\* storeTokens(tokens)
CallStoreTokens ==
    /\ \E tokens \in ProbeTokens :
        /\ localStorage' = storeTokens(localStorage, tokens)
        /\ ret' = Some(Returned("storeTokens", Some(tokens), now, Null))
    /\ UNCHANGED <<envVars, net, opVars, pageVars, auxVars, uiVars, viewVars, zone>>

\* getStoredTokens()
CallGetStoredTokens ==
    /\ ret' = Some(Returned("getStoredTokens", Null, now, getStoredTokens(localStorage)))
    /\ UNCHANGED <<localStorage, envVars, net, opVars, pageVars, auxVars, uiVars, viewVars, zone>>

\* clearTokens()
CallClearTokens ==
    /\ localStorage' = clearTokens(localStorage)
    /\ ret' = Some(Returned("clearTokens", Null, now, Null))
    /\ UNCHANGED <<envVars, net, opVars, pageVars, auxVars, uiVars, viewVars, zone>>

\* localStorage.setItem(STORAGE_KEY, blob) by other code, with a blob that is
\* not the JSON of a pair.
StorageEdited ==
    /\ \E blob \in UndecodableBlobs :
        /\ localStorage[STORAGE_KEY] # Some(blob)
        /\ localStorage' = [localStorage EXCEPT ![STORAGE_KEY] = Some(blob)]
        /\ ret' = Some(Returned("setItem", Null, now, Null))
    /\ UNCHANGED <<envVars, net, opVars, pageVars, auxVars, uiVars, viewVars, zone>>

NextStore ==
    \/ CallIsTokenExpired
    \/ CallStoreTokens
    \/ CallGetStoredTokens
    \/ CallClearTokens
    \/ StorageEdited
    \/ Tick

SpecStore == InitStore /\ [][NextStore]_vars

-----------------------------------------------------------------------------
(* AggregationEngine: utils/dataProcessing.ts *)

MaxActivities == 3      \* records in one input collection

\* activity.type as the provider may send it: absent, empty, a sport name, or
\* a name that is a canonical array index.
Sports == <<Null, Some(""), Some("Run"), Some("Ride"), Some("7")>>

\* activity.start_date, an instant in UTC: its year, and whether it falls in
\* the middle of that year or in the last hours of 31 December.
StartDates == <<<<2024, "mid">>, <<2023, "dec31">>>>

\* Time zones of the browser: UTC, and one so far ahead of UTC that the last
\* hours of 31 December UTC are already 1 January there.
Zones == {"utc", "east"}

\* The records input collections are made of; distance in meters and
\* moving_time in seconds, different for every record.
ActivityPool ==
    {[type |-> Sports[i], start_date |-> StartDates[j],
      distance |-> 1000 * i + 250 * j, moving_time |-> 600 * j + 60 * i] :
        i \in 1..Len(Sports), j \in 1..Len(StartDates)}

Collections == UNION {[1..n -> ActivityPool] : n \in 0..MaxActivities}

\* new Date(start_date).getFullYear(): the year in the time zone z.
GetFullYear(start_date, z) ==
    IF start_date[2] = "dec31" /\ z = "east" THEN start_date[1] + 1 ELSE start_date[1]

\* A Map or a plain object is the sequence of its <<key, value>> entries in
\* the order the keys were added.
HasKey(m, key) == \E i \in 1..Len(m) : m[i][1] = key

GetKey(m, key) == (CHOOSE i \in 1..Len(m) : m[i][1] = key)

\* m.set(key, value), acc[key] = value
SetKey(m, key, value) ==
    IF HasKey(m, key)
    THEN [m EXCEPT ![GetKey(m, key)] = <<key, value>>]
    ELSE Append(m, <<key, value>>)

\* activity.type || 'Unknown'
SportOf(activity) ==
    IF IsNull(activity.type) \/ Val(activity.type) = "" THEN "Unknown"
    ELSE Val(activity.type)

\* One step of the reduce of groupActivitiesBySport (lines 7-13).
GroupStep(acc, activity) ==
    LET sport == SportOf(activity)
        withKey == IF HasKey(acc, sport) THEN acc ELSE SetKey(acc, sport, <<>>)
    IN  SetKey(withKey, sport, Append(withKey[GetKey(withKey, sport)][2], activity))

RECURSIVE GroupAfter(_, _)
GroupAfter(acts, n) ==
    IF n = 0 THEN <<>> ELSE GroupStep(GroupAfter(acts, n - 1), acts[n])

groupActivitiesBySport(acts) == GroupAfter(acts, Len(acts))

\* Keys that are canonical array indices, with their numeric value.
IndexKeys == {"7"}
IndexValue(key) == 7

\* The entries whose key is not an array index, in the order they are in.
RECURSIVE NamedEntries(_)
NamedEntries(m) ==
    IF m = <<>> THEN <<>>
    ELSE IF m[1][1] \in IndexKeys THEN NamedEntries(Tail(m))
    ELSE <<m[1]>> \o NamedEntries(Tail(m))

\* The entries whose key is an array index, in ascending numeric order.
RECURSIVE IndexEntries(_)
IndexEntries(m) ==
    LET idx == {i \in 1..Len(m) : m[i][1] \in IndexKeys} IN
    IF idx = {} THEN <<>>
    ELSE LET least == CHOOSE i \in idx :
                        \A k \in idx : IndexValue(m[i][1]) <= IndexValue(m[k][1])
         IN  <<m[least]>> \o
             IndexEntries([k \in 1..(Len(m) - 1) |-> IF k < least THEN m[k] ELSE m[k + 1]])

\* Object.entries of a plain object: array-index keys first, in ascending
\* numeric order, then the other string keys in the order they were added.
ObjectEntries(m) == IndexEntries(m) \o NamedEntries(m)

\* Variant: the statistics of a year are overwritten by the latest record.
YearMapStep_overwrite(yearMap, activity, z) ==
    LET year == GetFullYear(activity.start_date, z) IN
    SetKey(yearMap, year, [distance |-> activity.distance,
                           time |-> activity.moving_time])

\* Variant: the distance is added in kilometers.
YearMapStep_kilometers(yearMap, activity, z) ==
    LET year == GetFullYear(activity.start_date, z)
        existing == IF HasKey(yearMap, year) THEN yearMap[GetKey(yearMap, year)][2]
                    ELSE [distance |-> 0, time |-> 0]
    IN  SetKey(yearMap, year, [distance |-> existing.distance + (activity.distance \div 1000),
                               time |-> existing.time + activity.moving_time])

\* One step of the forEach of calculateYearlyStats (lines 23-31).
YearMapStep(yearMap, activity, z) ==
    LET year == GetFullYear(activity.start_date, z)
        existing == IF HasKey(yearMap, year) THEN yearMap[GetKey(yearMap, year)][2]
                    ELSE [distance |-> 0, time |-> 0]
    IN  SetKey(yearMap, year, [distance |-> existing.distance + activity.distance,
                               time |-> existing.time + activity.moving_time])

RECURSIVE YearMapAfter(_, _, _)
YearMapAfter(acts, z, n) ==
    IF n = 0 THEN <<>> ELSE YearMapStep(YearMapAfter(acts, z, n - 1), acts[n], z)

\* Variant: the entries left in the order of the Map.
SortByYear_unsorted(stats) == stats

\* .sort((a, b) => a.year - b.year): a stable sort, by insertion.
RECURSIVE SortByYear(_)
SortByYear(stats) ==
    IF Len(stats) <= 1 THEN stats
    ELSE LET last == stats[Len(stats)]
             front == SortByYear(SubSeq(stats, 1, Len(stats) - 1))
             k == Cardinality({i \in 1..Len(front) : front[i].year - last.year <= 0})
         IN  SubSeq(front, 1, k) \o <<last>> \o SubSeq(front, k + 1, Len(front))

calculateYearlyStats(acts, z) ==
    LET yearMap == YearMapAfter(acts, z, Len(acts)) IN
    SortByYear([i \in 1..Len(yearMap) |->
                  [year |-> yearMap[i][1],
                   distance |-> yearMap[i][2].distance,
                   time |-> yearMap[i][2].time]])

calculateSportYearlyStats(acts, z) ==
    LET sportGroups == ObjectEntries(groupActivitiesBySport(acts)) IN
    [i \in 1..Len(sportGroups) |->
        [sport |-> sportGroups[i][1],
         yearlyStats |-> calculateYearlyStats(sportGroups[i][2], z)]]

-----------------------------------------------------------------------------
(* The aggregation functions called directly on one input collection *)

InitStats ==
    /\ localStorage = [k \in Keys |-> Null]
    /\ now = 0
    /\ issued = 0
    /\ remote = <<>>
    /\ net = {}
    /\ gvat = NoCalls /\ fetches = NoCalls /\ loads = NoCalls /\ callback = Null
    /\ page = "none" /\ url = [code |-> Null, error |-> Null]
    /\ failed = {}
    /\ activities \in Collections
    /\ loading = FALSE /\ error = Null
    /\ isAuthenticated = FALSE /\ clientId = "" /\ clientSecret = ""
    /\ showCredentialsForm = FALSE
    /\ selectedSports = <<>> /\ userEmptied = FALSE
    /\ zone \in Zones
    /\ ret = Null

\* groupActivitiesBySport(activities)
CallGroupActivitiesBySport ==
    /\ ret' = Some(Returned("groupActivitiesBySport", Some(activities), now,
                            Some(groupActivitiesBySport(activities))))
    /\ UNCHANGED <<localStorage, envVars, net, opVars, pageVars, auxVars, uiVars, viewVars, zone>>

\* calculateYearlyStats(activities)
CallCalculateYearlyStats ==
    /\ ret' = Some(Returned("calculateYearlyStats", Some(activities), now,
                            Some(calculateYearlyStats(activities, zone))))
    /\ UNCHANGED <<localStorage, envVars, net, opVars, pageVars, auxVars, uiVars, viewVars, zone>>

\* calculateSportYearlyStats(activities)
CallCalculateSportYearlyStats ==
    /\ ret' = Some(Returned("calculateSportYearlyStats", Some(activities), now,
                            Some(calculateSportYearlyStats(activities, zone))))
    /\ UNCHANGED <<localStorage, envVars, net, opVars, pageVars, auxVars, uiVars, viewVars, zone>>

NextStats ==
    \/ CallGroupActivitiesBySport
    \/ CallCalculateYearlyStats
    \/ CallCalculateSportYearlyStats

SpecStats == InitStats /\ [][NextStats]_vars

-----------------------------------------------------------------------------
(* The sport filter of the dashboard: App.tsx 153-185, 298-355 *)

MaxLoaded == 2      \* records in an activity set a load delivers

\* The activity sets a successful load may deliver: records of one year and
\* of every sport type, the absent and the empty one included.
LoadedSets ==
    UNION {[1..n -> {a \in ActivityPool : a.start_date = StartDates[1]}] :
             n \in 0..MaxLoaded}

\* sportStats (lines 154-157)
sportStats ==
    IF Len(activities) = 0 THEN <<>>
    ELSE calculateSportYearlyStats(activities, zone)

\* availableSports (lines 167-169)
availableSports == [i \in 1..Len(sportStats) |-> sportStats[i].sport]

\* prev.includes(sport)
Includes(prev, sport) == \E i \in 1..Len(prev) : prev[i] = sport

\* The condition of the effect of lines 160-164.  The effect runs after every
\* render that changed sportStats or selectedSports.length, and a state in
\* which the condition holds has just been rendered by such a change, so the
\* effect is pending exactly when its condition holds; it runs before the
\* browser hands the next event to the page.
EffectPending == Len(sportStats) > 0 /\ Len(selectedSports) = 0

\* A session as the page holds it once connected: a pair stored,
\* isAuthenticated set (lines 64, 92), nothing loaded, nothing selected.
InitView ==
    /\ localStorage = storeTokens([k \in Keys |-> Null], OldTokens(ExpiryMargin + 1))
    /\ now = 0
    /\ issued = 0
    /\ remote = <<>>
    /\ net = {}
    /\ gvat = NoCalls /\ fetches = NoCalls /\ loads = NoCalls /\ callback = Null
    /\ page = "mounted" /\ url = NoParams
    /\ failed = {}
    /\ activities = <<>> /\ loading = FALSE /\ error = Null
    /\ isAuthenticated = TRUE /\ clientId = "" /\ clientSecret = ""
    /\ showCredentialsForm = FALSE
    /\ selectedSports = <<>> /\ userEmptied = FALSE
    /\ zone = "utc" /\ ret = Null

\* The effect of lines 160-164: "Initialize selected sports when sportStats
\* change".
InitializeSelectedSports ==
    /\ Len(sportStats) > 0 /\ Len(selectedSports) = 0
    /\ selectedSports' = availableSports
    /\ UNCHANGED userEmptied
    /\ UNCHANGED <<localStorage, envVars, net, opVars, pageVars, auxVars, uiVars,
                   probeVars>>

\* A load of the connected session succeeds: setActivities(data) (line 141).
ActivitiesLoaded(data) ==
    /\ ~EffectPending
    /\ isAuthenticated
    /\ activities' = setActivities(activities, data)
    /\ UNCHANGED <<localStorage, envVars, net, opVars, pageVars, auxVars, loading,
                   error, isAuthenticated, clientId, clientSecret,
                   showCredentialsForm, viewVars, probeVars>>

\* The updater of handleSportToggle (lines 172-176).
Toggled(prev, sport) ==
    IF Includes(prev, sport)
    THEN SelectSeq(prev, LAMBDA s : s # sport)
    ELSE Append(prev, sport)

\* handleSportToggle (lines 171-177); the checkboxes are those of
\* availableSports and are rendered while activities are held (line 298).
HandleSportToggle(sport) ==
    /\ ~EffectPending
    /\ Len(activities) > 0 /\ Includes(availableSports, sport)
    /\ selectedSports' = Toggled(selectedSports, sport)
    /\ userEmptied' = (selectedSports' = <<>>)
    /\ UNCHANGED <<localStorage, envVars, net, opVars, pageVars, auxVars, uiVars,
                   probeVars>>

\* handleSelectAllSports (lines 179-181)
HandleSelectAllSports ==
    /\ ~EffectPending
    /\ Len(activities) > 0
    /\ selectedSports' = availableSports
    /\ userEmptied' = FALSE
    /\ UNCHANGED <<localStorage, envVars, net, opVars, pageVars, auxVars, uiVars,
                   probeVars>>

\* handleDeselectAllSports (lines 183-185)
HandleDeselectAllSports ==
    /\ ~EffectPending
    /\ Len(activities) > 0
    /\ selectedSports' = <<>>
    /\ userEmptied' = TRUE
    /\ UNCHANGED <<localStorage, envVars, net, opVars, pageVars, auxVars, uiVars,
                   probeVars>>

\* The user connects again after a disconnect: the page is opened anew and
\* the exchange is granted (lines 84-92), which leaves a connected session
\* with nothing loaded.
Reconnected ==
    /\ ~isAuthenticated
    /\ localStorage' = storeTokens(localStorage, OldTokens(ExpiryMargin + 1))
    /\ isAuthenticated' = TRUE
    /\ activities' = <<>> /\ selectedSports' = <<>> /\ userEmptied' = FALSE
    /\ UNCHANGED <<envVars, net, opVars, pageVars, auxVars, loading, error, clientId,
                   clientSecret, showCredentialsForm, probeVars>>

NextView ==
    \/ InitializeSelectedSports
    \/ \E data \in LoadedSets : ActivitiesLoaded(data)
    \/ \E sport \in {"Unknown", "Run", "Ride", "7"} : HandleSportToggle(sport)
    \/ HandleSelectAllSports
    \/ HandleDeselectAllSports
    \/ (~EffectPending /\ HandleDisconnect)
    \/ Reconnected

SpecView == InitView /\ [][NextView]_vars

-----------------------------------------------------------------------------
(* Properties *)

RequestsOf(kind, id, reqs) == {r \in reqs : r.kind = kind /\ r.id = id}
RefreshRequestsOf(id, reqs) == RequestsOf("refresh", id, reqs)
PageRequestsOf(id, reqs) == RequestsOf("page", id, reqs)
ExchangeRequests(reqs) == {r \in reqs : r.kind = "exchange"}

\* Call id of getValidAccessToken is entered in this step.
GvatEntered(id) == id \notin DOMAIN gvat /\ id \in DOMAIN gvat'

\* Call id of getValidAccessToken goes from pc a to pc b in this step.
GvatMoves(id, a, b) ==
    /\ id \in DOMAIN gvat /\ gvat[id].pc = a
    /\ id \in DOMAIN gvat' /\ gvat'[id].pc = b

\* The page stays: the step is not the replacement of the document.
SamePage == page' = page

\* In this step the provider rejects the refresh request of call id: the
\* request is answered and no pair is issued.
RefreshRejected(id) ==
    /\ SamePage /\ issued' = issued
    /\ id \in DOMAIN gvat /\ gvat[id].pc = "refreshing"
    /\ \E r \in RefreshRequestsOf(id, net) : net' \in {net \ {r}, net}
    /\ gvat' # gvat

\* In this step the provider grants the refresh request of call id.
RefreshGranted(id) ==
    /\ SamePage /\ issued' = issued + 1
    /\ \E r \in RefreshRequestsOf(id, net) : r \notin net'

\* In this step the provider rejects the exchange request.
ExchangeRejected ==
    /\ SamePage /\ issued' = issued
    /\ \E r \in ExchangeRequests(net) : r \notin net'

\* In this step the provider grants the exchange request.
ExchangeGranted ==
    /\ SamePage /\ issued' = issued + 1
    /\ \E r \in ExchangeRequests(net) : r \notin net'

\* The blob of a pair whose three members all come from one token response.
BlobOfResponse(resp) ==
    <<"{", <<"access_token", resp.access_token>>,
           <<"refresh_token", resp.refresh_token>>,
           <<"expires_at", resp.expires_at>>, "}">>

StoredBlob == localStorage[STORAGE_KEY]

\* C1: getValidAccessToken called with a pair stored: when expires_at - now
\* >= 3600 it sends no refresh request, leaves the store alone and returns the
\* stored access token; otherwise it sends exactly one refresh request (with
\* the stored refresh token) and none afterwards, and when the refresh
\* succeeds the refreshed pair is in the store at the moment the call returns
\* the new access token.
C1_RefreshOnlyWhenDue ==
    [][\A id \in CallIds :
        /\ (GvatEntered(id) /\ ~IsNull(getStoredTokens(localStorage))) =>
             LET stored == Val(getStoredTokens(localStorage)) IN
             IF stored.expires_at - now >= 3600
             THEN /\ gvat'[id].pc = "returned"
                  /\ gvat'[id].result = Some(stored.access_token)
                  /\ gvat'[id].sent = 0
                  /\ net' = net
                  /\ localStorage' = localStorage
             ELSE /\ gvat'[id].pc = "refreshing"
                  /\ gvat'[id].sent = 1
                  /\ Cardinality(net' \ net) = 1
                  /\ \A r \in net' \ net :
                        r \in RefreshRequestsOf(id, net') /\ r.refresh_token = stored.refresh_token
        /\ (id \in DOMAIN gvat /\ gvat[id].pc = "refreshing" /\ id \in DOMAIN gvat') =>
             /\ gvat'[id].sent = 1
             /\ RefreshRequestsOf(id, net' \ net) = {}
        /\ RefreshGranted(id) =>
             LET resp == Val(gvat'[id].tokenResponse) IN
             /\ gvat'[id].pc = "returned"
             /\ gvat'[id].result = Some(resp.access_token)
             /\ StoredBlob' = Some(BlobOfResponse(resp))
    ]_vars

\* A call has refreshed, persisted the new pair and returned its access token.
C1_Witness ==
    /\ 1 \in DOMAIN gvat
    /\ gvat[1].pc = "returned"
    /\ ~IsNull(gvat[1].tokenResponse)
    /\ gvat[1].result = Some(AccessToken(issued))

\* C2: when the refresh inside getValidAccessToken fails, the call fails
\* and the store holds no pair afterwards; from then on the store stays empty
\* until a new authorization stores a pair, and a call made while it is empty
\* fails as not authenticated without sending a request.
C2_FailedRefreshEmptiesStore ==
    [][\A id \in CallIds :
        /\ RefreshRejected(id) =>
             /\ gvat'[id].pc = "thrown"
             /\ IsNull(StoredBlob')
        /\ (IsNull(StoredBlob) /\ ~IsNull(StoredBlob')) =>
             /\ gvat = NoCalls
             /\ issued' = issued + 1
        /\ (GvatEntered(id) /\ IsNull(StoredBlob)) =>
             /\ gvat'[id].pc = "thrown"
             /\ gvat'[id].message = NoStoredTokensMsg
             /\ net' = net
             /\ IsNull(StoredBlob')
    ]_vars

\* A refresh was rejected, no pair has been stored since the behaviour began,
\* and a later call has failed as not authenticated with nothing in flight.
C2_Witness ==
    /\ failed # {}
    /\ issued = 0
    /\ 1 \in DOMAIN gvat
    /\ gvat[1].pc = "thrown"
    /\ gvat[1].message = NoStoredTokensMsg
    /\ net = {}

\* Whenever a step writes a pair to the store, the blob written holds the
\* three members of the one token response received in that step.
StoreWritesAreWholePairs ==
    (StoredBlob' # StoredBlob /\ ~IsNull(StoredBlob')) =>
        \/ /\ ExchangeGranted
           /\ ~IsNull(callback') /\ ~IsNull(Val(callback').tokenResponse)
           /\ StoredBlob' = Some(BlobOfResponse(Val(Val(callback').tokenResponse)))
        \/ \E id \in CallIds :
           /\ RefreshGranted(id)
           /\ StoredBlob' = Some(BlobOfResponse(Val(gvat'[id].tokenResponse)))

\* The store holds nothing, or one blob that decodes to a pair whose access
\* and refresh tokens were issued together.
WholePairStored ==
    IsNull(StoredBlob) \/
        /\ ~IsNull(getStoredTokens(localStorage))
        /\ \E g \in 0..MaxIssued :
              /\ Val(getStoredTokens(localStorage)).access_token = AccessToken(g)
              /\ Val(getStoredTokens(localStorage)).refresh_token = RefreshToken(g)
              /\ Val(getStoredTokens(localStorage)).expires_at \in ExpiresAtValues

\* C3 as stated: the store holds at most one pair, written whole from one
\* provider response, and a rejected exchange or a rejected refresh leaves the
\* stored pair untouched.
C3_AsStated ==
    [][/\ WholePairStored /\ WholePairStored'
       /\ StoreWritesAreWholePairs
       /\ ExchangeRejected => StoredBlob' = StoredBlob
       /\ \A id \in CallIds : RefreshRejected(id) => StoredBlob' = StoredBlob
    ]_vars

\* C3 as amended: the store holds at most one pair, written whole from one
\* provider response; a granted exchange or refresh replaces the pair, a
\* rejected exchange leaves the stored pair untouched, and a rejected refresh
\* removes it.
C3_WholePairOrRemoved ==
    [][/\ WholePairStored /\ WholePairStored'
       /\ StoreWritesAreWholePairs
       /\ ExchangeGranted => (~IsNull(StoredBlob') /\ StoredBlob' # StoredBlob)
       /\ \A id \in CallIds :
            RefreshGranted(id) => (~IsNull(StoredBlob') /\ StoredBlob' # StoredBlob)
       /\ ExchangeRejected => StoredBlob' = StoredBlob
       /\ \A id \in CallIds : RefreshRejected(id) => IsNull(StoredBlob')
    ]_vars

\* An exchange has replaced a pair of an earlier session after the clock
\* moved, and the callback still holds the response it stored.
C3_Witness ==
    /\ ~IsNull(callback)
    /\ ~IsNull(Val(callback).tokenResponse)
    /\ Val(Val(callback).tokenResponse).expires_in # Val(Val(callback).tokenResponse).expires_at
    /\ StoredBlob = Some(BlobOfResponse(Val(Val(callback).tokenResponse)))

\* The step in which loadActivities catches the failure of the refresh.
RefreshFailureCaught(id) ==
    /\ id \in DOMAIN gvat /\ gvat[id].pc = "thrown"
    /\ gvat[id].sent > 0
    /\ id \notin DOMAIN gvat'
    /\ SamePage

Disconnected == ~isAuthenticated /\ IsNull(StoredBlob)

\* C4 as stated: every rejected exchange and every failed refresh leaves the
\* session Disconnected with no pair stored.
C4_AsStated ==
    [][/\ ExchangeRejected => Disconnected'
       /\ \A id \in CallIds : RefreshFailureCaught(id) => Disconnected'
    ]_vars

\* C4 as amended: a failed refresh leaves the session Disconnected with no
\* pair stored; a rejected exchange leaves the store and the authenticated flag
\* as they were, so the session is Disconnected afterwards exactly when it
\* was before.
C4_RefreshFailureDisconnects ==
    [][/\ ExchangeRejected =>
            /\ StoredBlob' = StoredBlob
            /\ isAuthenticated' = isAuthenticated
       /\ \A id \in CallIds :
            /\ RefreshRejected(id) => IsNull(StoredBlob')
            /\ RefreshFailureCaught(id) => Disconnected'
    ]_vars

\* A load has ended with a failed refresh: the message of that failure is
\* shown, nothing is in flight, and the session is Disconnected.
C4_Witness ==
    /\ error = Some(RefreshFailedMsg)
    /\ failed # {}
    /\ loads = NoCalls /\ gvat = NoCalls /\ net = {}
    /\ page = "mounted"
    /\ Disconnected

\* C5: after an explicit disconnect the stored client credentials and the
\* stored pair are absent, the session is unauthenticated and no activities
\* are held.
C5_DisconnectWipesEverything ==
    [][HandleDisconnect =>
            /\ IsNull(localStorage'[CLIENT_ID_KEY])
            /\ IsNull(localStorage'[CLIENT_SECRET_KEY])
            /\ IsNull(StoredBlob')
            /\ ~isAuthenticated'
            /\ activities' = <<>>
    ]_vars

\* C6: no automatic retry.  A page sends at most one exchange request, when
\* it mounts with a code; a call of getValidAccessToken sends at most one
\* refresh request, when it is entered; and a code or a refresh token the
\* provider has rejected is sent again only by a page the user opened
\* afterwards.
C6_NoAutomaticRetry ==
    [][/\ \A id \in DOMAIN gvat' :
            /\ gvat'[id].sent <= 1
            /\ Cardinality(RefreshRequestsOf(id, net')) <= gvat'[id].sent
       /\ Cardinality(ExchangeRequests(net')) <= 1
       /\ \A r \in net' \ net :
            /\ r.kind = "exchange" =>
                 /\ page = "loading" /\ page' = "mounted"
                 /\ Some(r.code) = url.code
            /\ r.kind = "refresh" =>
                 /\ GvatEntered(r.id)
                 /\ r.refresh_token \notin failed
    ]_vars

\* A rejected code is in the address of a page the user opened afterwards,
\* and a refresh token has been rejected too.
C6_Witness ==
    /\ \E c \in Codes : c \in failed /\ ~IsNull(callback) /\ Val(callback).code = c
    /\ \E g \in 0..MaxIssued : RefreshToken(g) \in failed

\* C7: against a collection that does not change, fetchActivities returns
\* exactly its records in remote order after asking for pages 1..k with
\* k = floor(N / 200) + 1: 450 records cost 3 requests, none costs 1, and a
\* multiple of 200 costs one request more, answered by an empty page.
C7_AllRecordsInOrder ==
    \A id \in DOMAIN fetches :
        fetches[id].pc = "returned" =>
            /\ fetches[id].result = Some(remote)
            /\ Len(fetches[id].requested) = (Len(remote) \div 200) + 1
            /\ PageRequestsOf(id, net) = {}
            /\ Len(remote) = 450 => Len(fetches[id].requested) = 3
            /\ Len(remote) = 0 => Len(fetches[id].requested) = 1
            /\ Len(remote) = 400 => Len(fetches[id].requested) = 3

\* The 450 records have been returned after three requests.
C7_Witness ==
    /\ 1 \in DOMAIN fetches
    /\ fetches[1].pc = "returned"
    /\ Len(Val(fetches[1].result)) = 450
    /\ fetches[1].requested = <<1, 2, 3>>

\* C8: the pages asked for in one call are 1, 2, 3, ... without gap or
\* repeat, at most one page request of the call is in flight, and the request
\* for page N + 1 is sent in the step that receives the response to page N.
C8_PagesInSequence ==
    [][/\ \A id \in DOMAIN fetches' :
            /\ fetches'[id].requested = [i \in 1..Len(fetches'[id].requested) |-> i]
            /\ Cardinality(PageRequestsOf(id, net')) <= 1
            /\ \A r \in PageRequestsOf(id, net') :
                  /\ fetches'[id].pc = "requesting"
                  /\ r.page = Len(fetches'[id].requested)
            /\ fetches'[id].pc = "requesting" => PageRequestsOf(id, net') # {}
       /\ \A r \in net' \ net :
            (r.kind = "page" /\ r.page > 1) =>
                \E q \in net \ net' : q.kind = "page" /\ q.id = r.id /\ q.page = r.page - 1
    ]_vars

\* The third page is the one request in flight.
C8_Witness ==
    /\ 1 \in DOMAIN fetches
    /\ fetches[1].pc = "requesting"
    /\ fetches[1].requested = <<1, 2, 3>>
    /\ \E r \in net : r.kind = "page" /\ r.page = 3

\* C9: a non-success status on any page makes the call fail: it returns no
\* records, it asks for no further page, and the message is that of the
\* status: Unauthorized for 401, Forbidden for 403, and for every other status
\* the API error naming the status.
C9_FailureAbortsAndClassifies ==
    \A id \in DOMAIN fetches :
        fetches[id].status \notin {0, 200} =>
            /\ fetches[id].pc = "thrown"
            /\ IsNull(fetches[id].result)
            /\ PageRequestsOf(id, net) = {}
            /\ fetches[id].status = 401 => fetches[id].message[1] = UnauthorizedMsg
            /\ fetches[id].status = 403 => fetches[id].message[1] = ForbiddenMsg
            /\ fetches[id].status \notin {401, 403} =>
                 /\ fetches[id].message[1] = ApiErrorPrefix
                 /\ fetches[id].message[2] = StatusLine(fetches[id].status)

\* The second page was answered 429 after a full first page was gathered.
C9_Witness ==
    /\ 1 \in DOMAIN fetches
    /\ fetches[1].pc = "thrown"
    /\ fetches[1].status = 429
    /\ fetches[1].requested = <<1, 2>>
    /\ Len(fetches[1].activities) = 200

\* C10: in every load the first page request is sent by the continuation
\* that receives the access token getValidAccessToken returned, and carries
\* it, as does every later page request; when that call refreshed, the
\* refreshed pair is in the store by then; no page request is sent or in
\* flight while a refresh request is, and none is sent for a call that failed.
C10_TokenBeforeFetch ==
    [][/\ \A r \in net' \ net :
            r.kind = "page" =>
                /\ r.id \in DOMAIN loads
                /\ IF r.page = 1
                   THEN /\ r.id \in DOMAIN gvat
                        /\ gvat[r.id].pc = "returned"
                        /\ r.authorization = <<"Bearer", Val(gvat[r.id].result)>>
                        /\ ~IsNull(gvat[r.id].tokenResponse) =>
                             StoredBlob = Some(BlobOfResponse(Val(gvat[r.id].tokenResponse)))
                   ELSE \E q \in net \ net' :
                            q.kind = "page" /\ q.id = r.id /\ q.authorization = r.authorization
       /\ \A r \in net' :
            r.kind = "page" =>
                /\ r.id \notin DOMAIN gvat'
                /\ \A q \in net' : q.kind # "refresh"
    ]_vars

\* The load started by the callback refreshed the pair the exchange had just
\* stored, and is fetching its second page with the refreshed access token.
C10_Witness ==
    /\ ~IsNull(callback)
    /\ Val(callback).pc = "awaitLoad"
    /\ Val(Val(callback).tokenResponse).access_token = AccessToken(1)
    /\ Val(callback).load \in DOMAIN fetches
    /\ fetches[Val(callback).load].accessToken = AccessToken(2)
    /\ StoredBlob = Some(JSONstringify([access_token |-> AccessToken(2),
                                        refresh_token |-> RefreshToken(2),
                                        expires_at |-> ExpiryMargin + 1]))
    /\ \E r \in net : r.kind = "page" /\ r.id = Val(callback).load /\ r.page = 2

\* The generation of the pair a request carries a token of.
TokenOfRequest(r) ==
    IF r.kind = "page" THEN r.authorization[2]
    ELSE IF r.kind = "refresh" THEN r.refresh_token
    ELSE <<"none", 0>>

\* C11: every page request and every refresh request is sent with a token of
\* the pair issued last, whatever the user did before.  A pair that a newer
\* one has replaced in the store was issued before that one, so no request
\* sent after the replacement carries its access token or its refresh token.
C11_ReplacedTokenNeverSent ==
    [][\A r \in net' \ net :
          /\ r.kind = "page" => TokenOfRequest(r) = AccessToken(issued')
          /\ r.kind = "refresh" => TokenOfRequest(r) = RefreshToken(issued')
          /\ \A g \in 0..MaxIssued :
                g < issued' => TokenOfRequest(r) \notin {AccessToken(g), RefreshToken(g)}
    ]_vars

\* A load started by a click refreshed the stored pair, which had itself
\* replaced an earlier one, and is fetching with the newest access token
\* while the newest pair is the one stored.
C11_Witness ==
    /\ IsNull(callback)
    /\ issued = 2
    /\ ~IsNull(getStoredTokens(localStorage))
    /\ Val(getStoredTokens(localStorage)).refresh_token = RefreshToken(2)
    /\ \E r \in net : r.kind = "page" /\ r.authorization = <<"Bearer", AccessToken(2)>>
    /\ \E id \in DOMAIN fetches : fetches[id].caller = "load" /\ id \in DOMAIN loads
                                   /\ loads[id].caller = "click"

\* The latest direct call was of fn.
LastCall(fn) == ~IsNull(ret) /\ Val(ret).fn = fn

\* C12: isTokenExpired(tokens) is true exactly when expires_at - now < 3600,
\* now being the clock in whole seconds at the call: true at 3599 remaining,
\* false at 3600, true when the pair has already expired.
C12_ExpiredIffUnderMargin ==
    LastCall("isTokenExpired") =>
        LET remaining == Val(Val(ret).arg).expires_at - Val(ret).now
            value == Val(Val(ret).value)
        IN  /\ value <=> (remaining < 3600)
            /\ remaining = 3599 => value
            /\ remaining = 3600 => ~value
            /\ remaining < 0 => value

\* The predicate was called after the clock had moved, on a pair with exactly
\* 3600 seconds left, and answered false.
C12_Witness ==
    /\ LastCall("isTokenExpired")
    /\ Val(ret).now > 0
    /\ Val(Val(ret).arg).expires_at - Val(ret).now = 3600
    /\ Val(ret).value = Some(FALSE)

\* The year the code files a record under: that of its start date in the
\* time zone of the browser.
YearOf(activity) == GetFullYear(activity.start_date, zone)

\* The sum of field over the records of acts the code files under year.
RECURSIVE SumOfYear(_, _, _)
SumOfYear(acts, field, year) ==
    IF acts = <<>> THEN 0
    ELSE (IF YearOf(acts[1]) = year THEN acts[1][field] ELSE 0)
            + SumOfYear(Tail(acts), field, year)

\* C13: calculateYearlyStats returns one entry for each year some input
\* record falls in and none for another year, the entries in strictly
\* ascending order of year (so none twice), each with the sums of distance
\* and of moving time over exactly the records of its year.
C13_OneSummedEntryPerYear ==
    LastCall("calculateYearlyStats") =>
        LET acts == Val(Val(ret).arg)
            stats == Val(Val(ret).value)
        IN  /\ {stats[i].year : i \in 1..Len(stats)} =
                 {YearOf(acts[k]) : k \in 1..Len(acts)}
            /\ \A i \in 1..Len(stats) : \A j \in 1..Len(stats) :
                 i < j => stats[i].year < stats[j].year
            /\ \A i \in 1..Len(stats) :
                 /\ stats[i].distance = SumOfYear(acts, "distance", stats[i].year)
                 /\ stats[i].time = SumOfYear(acts, "moving_time", stats[i].year)

\* The input lists a record of the later year before two of the earlier
\* year; the result has the earlier year first, with the two summed.
C13_Witness ==
    /\ LastCall("calculateYearlyStats")
    /\ Len(activities) = 3
    /\ YearOf(activities[1]) = 2024
    /\ YearOf(activities[2]) = 2023 /\ YearOf(activities[3]) = 2023
    /\ Len(Val(Val(ret).value)) = 2
    /\ Val(Val(ret).value)[1].year = 2023
    /\ Val(Val(ret).value)[1].distance = activities[2].distance + activities[3].distance

\* The key a record is to be counted under: its sport, or "Unknown" when the
\* sport is absent or empty.
KeyOf(activity) ==
    IF activity.type = Null \/ activity.type = Some("") THEN "Unknown"
    ELSE Val(activity.type)

\* The keys of the records of acts, each once, in the order of first occurrence.
RECURSIVE FirstOccurrences(_)
FirstOccurrences(acts) ==
    IF acts = <<>> THEN <<>>
    ELSE LET front == FirstOccurrences(SubSeq(acts, 1, Len(acts) - 1))
             key == KeyOf(acts[Len(acts)])
         IN  IF \E i \in 1..Len(front) : front[i] = key THEN front ELSE Append(front, key)

\* The sum of field over the records of acts counted under key.
RECURSIVE SumOfKey(_, _, _)
SumOfKey(acts, field, key) ==
    IF acts = <<>> THEN 0
    ELSE (IF KeyOf(acts[1]) = key THEN acts[1][field] ELSE 0)
            + SumOfKey(Tail(acts), field, key)

\* The sum of field over the entries of a sequence of records.
RECURSIVE SumOf(_, _)
SumOf(seq, field) ==
    IF seq = <<>> THEN 0 ELSE seq[1][field] + SumOf(Tail(seq), field)

\* The result has one entry for each key of the input and no other, every
\* record counted under its key.
EveryRecordUnderItsKey(acts, stats) ==
    /\ {stats[i].sport : i \in 1..Len(stats)} = {KeyOf(acts[k]) : k \in 1..Len(acts)}
    /\ \A i \in 1..Len(stats) : \A j \in 1..Len(stats) :
         stats[i].sport = stats[j].sport => i = j
    /\ \A i \in 1..Len(stats) :
         /\ SumOf(stats[i].yearlyStats, "distance") = SumOfKey(acts, "distance", stats[i].sport)
         /\ SumOf(stats[i].yearlyStats, "time") = SumOfKey(acts, "moving_time", stats[i].sport)

\* C14: calculateSportYearlyStats returns one entry for each distinct sport
\* key, a record without a sport or with an empty one counted under
\* "Unknown" and none dropped, and the entries are in the order in which the
\* keys first occur in the input, whatever strings the keys are.
C14_SportsInFirstOccurrenceOrder ==
    LastCall("calculateSportYearlyStats") =>
        LET acts == Val(Val(ret).arg)
            stats == Val(Val(ret).value)
        IN  /\ EveryRecordUnderItsKey(acts, stats)
            /\ [i \in 1..Len(stats) |-> stats[i].sport] = FirstOccurrences(acts)

\* What holds of C14 for every key: the grouping, without the order.
C14_GroupingOnly ==
    LastCall("calculateSportYearlyStats") =>
        EveryRecordUnderItsKey(Val(Val(ret).arg), Val(Val(ret).value))

\* The (sport, year) -> (distance sum, time sum) mapping of a result, as the
\* set of its <<sport, year, distance, time>> entries.
MappingOf(stats) ==
    {<<stats[i].sport, stats[i].yearlyStats[j].year,
       stats[i].yearlyStats[j].distance, stats[i].yearlyStats[j].time>> :
        <<i, j>> \in {<<i, j>> \in (1..Len(stats)) \X (1..MaxActivities) :
                            j <= Len(stats[i].yearlyStats)}}

\* acts with the records at positions i and j exchanged.
Swapped(acts, i, j) ==
    [k \in 1..Len(acts) |-> IF k = i THEN acts[j] ELSE IF k = j THEN acts[i] ELSE acts[k]]

C17_ReadsAreTotal ==
    [][/\ LastCall("getStoredTokens")' =>
            /\ IsNull(StoredBlob) => Val(ret').value = Null
            /\ LastCall("clearTokens") => Val(ret').value = Null
            /\ (~IsNull(StoredBlob) /\ Val(StoredBlob) \in UndecodableBlobs) =>
                 Val(ret').value = Null
            /\ localStorage' = localStorage
       /\ LastCall("clearTokens")' =>
            /\ IsNull(StoredBlob')
            /\ IsNull(StoredBlob) => localStorage' = localStorage
    ]_vars

\* A read returned null while the key held a blob cut short.
C17_Witness ==
    /\ LastCall("getStoredTokens")
    /\ Val(ret).value = Null
    /\ ~IsNull(StoredBlob)
    /\ Val(StoredBlob) \in UndecodableBlobs
    /\ Len(Val(StoredBlob)) > 0

\* The step in which the component mounts and its effects run.
MountStep == page = "loading" /\ page' = "mounted"

\* C18: a page opened with error=access_denied, with or without a code,
\* sends no exchange request, leaves the stored pair and the stored client
\* credentials as they are and records the access-denied message; a page
\* opened with a code only sends exactly one exchange request, for that code
\* and with the stored client credentials, and when none are stored sends
\* nothing and records an error.
C18_CallbackEntry ==
    [][MountStep =>
        /\ url.error = Some("access_denied") =>
             /\ net' = {}
             /\ callback' = Null
             /\ localStorage' = localStorage
             /\ error' = Some(AccessDeniedMsg)
        /\ (url.error = Null /\ url.code # Null) =>
             IF IsNull(localStorage[CLIENT_ID_KEY]) \/ IsNull(localStorage[CLIENT_SECRET_KEY])
             THEN /\ net' = {}
                  /\ callback' = Null
                  /\ ~IsNull(error') /\ Val(error') # <<>>
             ELSE /\ Cardinality(net') = 1
                  /\ \A r \in net' :
                       /\ r.kind = "exchange"
                       /\ r.code = Val(url.code)
                       /\ r.client_id = Val(localStorage[CLIENT_ID_KEY])
                       /\ r.client_secret = Val(localStorage[CLIENT_SECRET_KEY])
                  /\ localStorage' = localStorage
    ]_vars

\* The page has mounted on a redirect that was denied: the message is shown,
\* nothing is in flight, and the pair and the credentials stored before are
\* still there.
C18_Witness ==
    /\ page = "mounted"
    /\ error = Some(AccessDeniedMsg)
    /\ net = {} /\ IsNull(callback)
    /\ ~IsNull(StoredBlob)
    /\ ~IsNull(localStorage[CLIENT_ID_KEY])
    /\ issued > 0

\* In this step the load with call id ends with the result of its fetch.
LoadSucceeded(id) ==
    /\ SamePage
    /\ id \in DOMAIN fetches /\ fetches[id].pc = "returned"
    /\ id \notin DOMAIN fetches'

\* In this step the load with call id ends in its catch block.
LoadFailed(id) ==
    /\ SamePage
    /\ \/ id \in DOMAIN fetches /\ fetches[id].pc = "thrown" /\ id \notin DOMAIN fetches'
       \/ id \in DOMAIN gvat /\ gvat[id].pc = "thrown" /\ id \notin DOMAIN gvat'

\* What localStorage holds: under the token key nothing or the encoding of a
\* token pair, under the credential keys nothing or what the user typed.
OnlyTokensAndCredentialsStored ==
    /\ DOMAIN localStorage = Keys
    /\ WholePairStored
    /\ localStorage[CLIENT_ID_KEY] \in {Null} \cup {Some(i) : i \in ClientIdInputs}
    /\ localStorage[CLIENT_SECRET_KEY] \in {Null} \cup {Some(x) : x \in ClientSecretInputs}

\* C19: a load that succeeds leaves as the activity set exactly the result
\* of its fetch, whatever was held before, and writes nothing to
\* localStorage; a load that fails leaves the activity set as it was; and
\* localStorage never holds anything but a token pair and the credentials.
C19_ActivitiesReplacedNotStored ==
    [][/\ \A id \in CallIds :
            /\ LoadSucceeded(id) =>
                 /\ activities' = Val(fetches[id].result)
                 /\ Len(activities') <= perPage + 1
                 /\ localStorage' = localStorage
            /\ LoadFailed(id) => activities' = activities
       /\ OnlyTokensAndCredentialsStored /\ OnlyTokensAndCredentialsStored'
    ]_vars

\* A load failed after an earlier one had succeeded: its error is shown and
\* the activities of the earlier load are still held.
C19_Witness ==
    /\ page = "mounted"
    /\ loads = NoCalls /\ ~loading
    /\ ~IsNull(error)
    /\ Len(activities) = perPage + 1

\* In this step the load with call id ends in its catch block with the error
\* of a page answered with the given status.
LoadFailedWithStatus(id, status) ==
    /\ SamePage
    /\ id \in DOMAIN fetches /\ fetches[id].pc = "thrown" /\ fetches[id].status = status
    /\ id \notin DOMAIN fetches'

\* A load that fails with a 401 on any page, or whose refresh fails, ends
\* with no pair stored and the session unauthenticated.
TornDownOn401OrRefreshFailure ==
    \A id \in CallIds :
        (LoadFailedWithStatus(id, 401) \/ RefreshFailureCaught(id)) =>
            /\ IsNull(StoredBlob')
            /\ ~isAuthenticated'

\* A load that fails with the given status leaves the stored pair and the
\* authenticated flag as they were.
SessionKeptOn(id, status) ==
    LoadFailedWithStatus(id, status) =>
        /\ StoredBlob' = StoredBlob
        /\ isAuthenticated' = isAuthenticated

\* C20: a load that fails with a 401 on any page, or whose refresh fails,
\* ends with no pair stored and the session unauthenticated; a load that fails
\* with a 403 or another status leaves the stored pair and the authenticated
\* flag as they were, whatever the body of the error response says.
C20_TeardownByStatus ==
    [][/\ TornDownOn401OrRefreshFailure
       /\ \A id \in CallIds : \A status \in ErrorStatuses \ {401} : SessionKeptOn(id, status)
    ]_vars

\* What holds of C20 for every error body: the teardown on a 401 and on a
\* failed refresh.
C20_TeardownOn401 == [][TornDownOn401OrRefreshFailure]_vars

\* What holds of the rest of C20: the session is kept on a 403 or another
\* status when the message of the error does not contain 're-authenticate'.
C20_KeptUnlessBodySaysReauthenticate ==
    [][\A id \in CallIds : \A status \in ErrorStatuses \ {401} :
          (id \in DOMAIN fetches /\ ~IncludesReauthenticate(fetches[id].message)) =>
              SessionKeptOn(id, status)
    ]_vars

\* The load with call id is in flight and the session is unauthenticated:
\* the user has disconnected since the load began.
DisconnectedInFlight(id) ==
    /\ id \in DOMAIN loads
    /\ loads[id].pc \in {"awaitGvat", "awaitFetch"}
    /\ ~isAuthenticated

\* A load in flight finds the session unauthenticated only through
\* handleDisconnect.
DisconnectedInFlightByDisconnect ==
    [][\A id \in CallIds :
          (DisconnectedInFlight(id)' /\ ~DisconnectedInFlight(id)) =>
              /\ isAuthenticated /\ id \in DOMAIN loads
              /\ IsNull(StoredBlob') /\ activities' = <<>>
              /\ UNCHANGED <<net, opVars, pageVars, loading, error>>
    ]_vars

\* C21: when a load ends, by its result or by an error, after the user has
\* disconnected while it was in flight, no pair is stored, the session is
\* unauthenticated and no activities are held.
C21_DisconnectNotUndone ==
    [][\A id \in CallIds :
          (DisconnectedInFlight(id) /\ (LoadSucceeded(id) \/ LoadFailed(id))) =>
              /\ IsNull(StoredBlob')
              /\ ~isAuthenticated'
              /\ activities' = <<>>
    ]_vars

\* What holds of C21: the load that ends after the disconnect leaves the
\* session unauthenticated.
C21_StaysUnauthenticated ==
    [][\A id \in CallIds :
          (DisconnectedInFlight(id) /\ (LoadSucceeded(id) \/ LoadFailed(id))) =>
              ~isAuthenticated'
    ]_vars

\* C21, the pair alone: it is stored again when the refresh that was in
\* flight at the disconnect is granted.
C21_NoPairStoredAgain ==
    [][\A id \in CallIds : DisconnectedInFlight(id) => IsNull(StoredBlob')]_vars

\* The loads in flight: entered and not yet at their end.
LoadsInFlight == {id \in DOMAIN loads : loads[id].pc \in {"awaitGvat", "awaitFetch"}}

\* The token requests outstanding: exchanges and refreshes.
TokenRequests == {r \in net : r.kind \in {"exchange", "refresh"}}

\* C22: whatever the user does, at most one load is in flight, with at most
\* one getValidAccessToken call and one fetchActivities call of its own, and
\* at most one exchange or refresh request is outstanding.
C22_OneLoadOneTokenRequest ==
    /\ Cardinality(LoadsInFlight) <= 1
    /\ Cardinality(DOMAIN gvat) + Cardinality(DOMAIN fetches) <= 1
    /\ DOMAIN gvat \cup DOMAIN fetches \subseteq LoadsInFlight
    /\ Cardinality(TokenRequests) <= 1

\* A load started by a click is waiting for its refresh while the button
\* that starts a load is disabled and the user has disconnected.
C22_Witness ==
    /\ \E id \in LoadsInFlight : loads[id].caller = "click" /\ loads[id].pc = "awaitGvat"
    /\ \E r \in net : r.kind = "refresh"
    /\ loading
    /\ ~isAuthenticated

\* In this step call 1 of fetchActivities receives a page of perPage records.
FullPageReceived ==
    /\ 1 \in DOMAIN fetches /\ fetches[1].pc = "requesting"
    /\ 1 \in DOMAIN fetches' /\ fetches'[1] # fetches[1]
    /\ fetches'[1].status = 200
    /\ Len(fetches'[1].activities) = Len(fetches[1].activities) + perPage

\* C23: against a source that answers every request, a call of
\* fetchActivities returns or fails once the source has answered with an
\* error, an empty page or a page shorter than perPage; and after every page
\* of perPage records, however many came before, it asks for the next page.
C23_TerminatesWithoutPageCap ==
    /\ (1 \in DOMAIN fetches) ~>
          (1 \in DOMAIN fetches /\ fetches[1].pc \in {"returned", "thrown"})
    /\ [][FullPageReceived =>
            /\ fetches'[1].pc = "requesting"
            /\ fetches'[1].page = fetches[1].page + 1
            /\ PageRequestsOf(1, net') =
                 {PageRequest(1, fetches[1].accessToken, fetches[1].page + 1)}
       ]_vars

\* Two pages of perPage records were followed by a third request, which an
\* empty page answered, and the call returned the 400 records.
C23_Witness ==
    /\ 1 \in DOMAIN fetches
    /\ fetches[1].pc = "returned"
    /\ fetches[1].requested = <<1, 2, 3>>
    /\ Len(Val(fetches[1].result)) = 2 * perPage

\* An error message with text in it is shown.
ErrorShown(e) == ~IsNull(e) /\ Len(Val(e)) > 0 /\ Val(e)[1] # ""

\* No operation of the page is in progress.
Idle == page = "mounted" /\ IsNull(callback) /\ loads = NoCalls

\* C24: a rejected exchange ends handleOAuthCallback, and a failed refresh
\* or page fetch ends its load, with the message of the failure recorded and
\* the loading flag false; a load that succeeds ends with no error recorded
\* and the flag false; handleOAuthCallback ends after its load with the flag
\* false and the error its load left; and the flag is false whenever nothing
\* is in progress.
C24_NoFailureSwallowed ==
    [][/\ ExchangeRejected =>
            /\ ErrorShown(error') /\ ~loading' /\ IsNull(callback')
       /\ \A id \in CallIds :
            /\ LoadFailed(id) =>
                 /\ ErrorShown(error') /\ ~loading'
                 /\ id \in DOMAIN fetches => error' = Some(fetches[id].message)
                 /\ id \in DOMAIN gvat => error' = Some(gvat[id].message)
            /\ LoadSucceeded(id) => (IsNull(error') /\ ~loading')
       /\ (SamePage /\ ~IsNull(callback) /\ IsNull(callback') /\ ~ExchangeRejected) =>
            (~loading' /\ error' = error)
       /\ Idle' => ~loading'
    ]_vars

\* A load has ended on a page the provider answered with an error that is
\* neither 401 nor 403: the message naming the status is shown, the session
\* is still authenticated and nothing is in progress.
C24_Witness ==
    /\ Idle /\ ~loading
    /\ ErrorShown(error)
    /\ Val(error)[1] = ApiErrorPrefix
    /\ isAuthenticated
    /\ net = {}

\* C25: whenever nothing is in flight, the session is marked authenticated
\* exactly when a token pair is stored.
C25_AuthenticatedIffPairStored ==
    (Idle /\ net = {}) => (isAuthenticated <=> ~IsNull(StoredBlob))

\* C25, one direction: with nothing in flight, a session marked
\* authenticated has a pair stored.
C25_AuthenticatedHasPair ==
    (Idle /\ net = {}) => (isAuthenticated => ~IsNull(StoredBlob))

SportsPresent == {availableSports[i] : i \in 1..Len(availableSports)}
SelectedSet == {selectedSports[i] : i \in 1..Len(selectedSports)}

\* C27, first part: once the user has emptied the selection, by Deselect All
\* or by unchecking the last selected sport, it is empty for as long as
\* activities are held and the user has not selected a sport.
C27_StaysEmptyUntilUserSelects ==
    (Len(activities) > 0 /\ userEmptied) => selectedSports = <<>>

\* C27, second part: the selected sports are among the sports of the activity
\* set held, also after a further load has replaced the set.
C27_SelectedAmongPresent ==
    Len(activities) > 0 => SelectedSet \subseteq SportsPresent

RECURSIVE TotalOf(_, _)
TotalOf(stats, field) ==
    IF stats = <<>> THEN 0
    ELSE SumOf(stats[1].yearlyStats, field) + TotalOf(Tail(stats), field)

\* The sum of field over the records of acts counted under key and year.
RECURSIVE SumOfCell(_, _, _, _)
SumOfCell(acts, field, key, year) ==
    IF acts = <<>> THEN 0
    ELSE (IF KeyOf(acts[1]) = key /\ YearOf(acts[1]) = year THEN acts[1][field] ELSE 0)
            + SumOfCell(Tail(acts), field, key, year)

\* The <<i, j>> positions of the (sport, year) entries of a result that are
\* those of the key and the year of a record.
EntriesOf(stats, activity) ==
    {<<i, j>> \in (1..Len(stats)) \X (1..MaxActivities) :
        /\ j <= Len(stats[i].yearlyStats)
        /\ stats[i].sport = KeyOf(activity)
        /\ stats[i].yearlyStats[j].year = YearOf(activity)}

====
